---- MODULE Spec2Model ----
(***************************************************************************)
(* Flowchart CFG generator (src/main.py): the AST visitor                  *)
(* FlowchartCFGBuilder that threads the set current_exits through the      *)
(* statements of a parsed module, and the complexity functions computed    *)
(* from the node table it returns.                                         *)
(*                                                                         *)
(* The visitor is recursive; its call stack is the variable stack, one     *)
(* frame per pending visit() call or per pending remainder of a handler    *)
(* (what the handler still does after the statements it visits).           *)
(***************************************************************************)
EXTENDS Integers, Sequences, FiniteSets, TLC

VARIABLES tree, nodes, current_node_id, current_exits, entry_node, stack, result,
          metrics

vars == <<tree, nodes, current_node_id, current_exits, entry_node, stack, result,
          metrics>>

\* Largest number of AST nodes below the Module node of an input.
MaxAst == 4

\* Largest absolute value of a complexity given to get_complexity_rating.
MaxComplexity == 60

None == -1

\* The value of create_flowchart_cfg: nothing before it returns, then the
\* node table it returns.
NotReturned == [returned |-> FALSE, nodes |-> <<>>]
Returned(g) == [returned |-> TRUE, nodes |-> g]

\* The locals complexity_formula, complexity_decisions, rating and color of
\* main: not computed, then the two complexities, then the rating.
NoMetrics == [computed |-> FALSE, complexity_formula |-> 0,
              complexity_decisions |-> 0, rating |-> "", color |-> ""]
Complexities(f, d) == [computed |-> TRUE, complexity_formula |-> f,
                       complexity_decisions |-> d, rating |-> "", color |-> ""]

(***************************************************************************)
(* The input: what ast.parse returns.  Every AST node is a record          *)
(*   kind    the node class the visitor dispatches on                      *)
(*   text    what ast.unparse gives for the part the handler renders       *)
(*   body    the body statements (for "Other": the child nodes in the      *)
(*           order ast.iter_child_nodes yields them)                       *)
(*   orelse  the else statements of an If                                  *)
(***************************************************************************)
Ast(kind, text, body, orelse) ==
    [kind |-> kind, text |-> text, body |-> body, orelse |-> orelse]

NoAst == Ast("None", "", <<>>, <<>>)
SyntaxErrorInput == Ast("SyntaxError", "", <<>>, <<>>)

\* x = 1
AssignStmt == Ast("Assign", "x = 1", <<>>, <<>>)
\* return        (node.value is None)
ReturnStmt == Ast("Return", "", <<>>, <<>>)
\* return None   (node.value is the constant None)
ReturnNoneStmt == Ast("Return", "None", <<>>, <<>>)
\* pass: no child nodes
PassStmt == Ast("Other", "pass", <<>>, <<>>)
\* the alias child of an Import
AliasNode == Ast("Other", "os", <<>>, <<>>)
\* import os: one child, the alias
ImportStmt == Ast("Other", "import os", <<AliasNode>>, <<>>)
\* the Load context of a Name: ast.unparse renders it as the empty string
LoadNode == Ast("Other", "", <<>>, <<>>)
\* the Name child of a Delete/Assert/...
NameNode == Ast("Other", "x", <<LoadNode>>, <<>>)
\* assert x: one child, the Name, whose child is Load
AssertStmt == Ast("Other", "assert x", <<NameNode>>, <<>>)
\* the Call child of a Raise
CallNode == Ast("Call", "f()", <<>>, <<>>)
\* raise f(): one child, the Call
RaiseStmt == Ast("Other", "raise f()", <<CallNode>>, <<>>)

IfStmt(body, orelse) == Ast("If", "x > 0", body, orelse)
WhileStmt(body) == Ast("While", "x > 0", body, <<>>)
ForStmt(body) == Ast("For", "for i in xs", body, <<>>)
FunctionDefStmt(body) == Ast("FunctionDef", "def f(a)", body, <<>>)
ModuleNode(body) == Ast("Module", "", body, <<>>)

\* Number of AST nodes of a statement without statement children.
LeafStmts(n) ==
    CASE n = 1 -> {AssignStmt, ReturnStmt, ReturnNoneStmt, PassStmt}
      [] n = 2 -> {ImportStmt, RaiseStmt}
      [] n = 3 -> {AssertStmt}
      [] OTHER -> {}

\* The statements (stmt) and the statement lists (list) made of exactly n
\* AST nodes, from those of fewer nodes: G[k] for k < n.
\* The parser never yields an empty body for if, while, for or def.
GenStep(G, n) ==
    LET bodies == IF n = 1 THEN {} ELSE G[n-1].list
        ifs == UNION {{IfStmt(b, e) : b \in G[a].list, e \in G[n-1-a].list}
                      : a \in 1..(n-1)}
        stmt == LeafStmts(n) \cup ifs
                  \cup {WhileStmt(b) : b \in bodies}
                  \cup {ForStmt(b) : b \in bodies}
                  \cup {FunctionDefStmt(b) : b \in bodies}
        list == UNION {{<<s>> \o l : s \in (IF a = n THEN stmt ELSE G[a].stmt),
                                     l \in G[n-a].list}
                       : a \in 1..n}
    IN [stmt |-> stmt, list |-> list]

\* Gen(n)[k] for k in 0..n: the statements and lists of exactly k AST nodes
RECURSIVE Gen(_)
Gen(n) ==
    IF n = 0 THEN (0 :> [stmt |-> {}, list |-> {<<>>}])
    ELSE LET G == Gen(n-1) IN G @@ (n :> GenStep(G, n))

\* the statements and lists of fewer than MaxAst AST nodes
GenTable == Gen(MaxAst - 1)

\* t is what ast.parse returns for a source of at most MaxAst AST nodes: a
\* body of fewer nodes, or one of exactly MaxAst nodes, which is a first
\* statement followed by a list, or a single statement of MaxAst nodes.
Parses(t) ==
    \/ \E n \in 0..(MaxAst - 1) : \E l \in GenTable[n].list : t = ModuleNode(l)
    \/ \E a \in 1..(MaxAst - 1) :
          \E s \in GenTable[a].stmt : \E l \in GenTable[MaxAst - a].list :
             t = ModuleNode(<<s>> \o l)
    \/ \E s \in LeafStmts(MaxAst) : t = ModuleNode(<<s>>)
    \/ \E a \in 1..(MaxAst - 1) :
          \E b \in GenTable[a].list : \E e \in GenTable[MaxAst - 1 - a].list :
             t = ModuleNode(<<IfStmt(b, e)>>)
    \/ \E b \in GenTable[MaxAst - 1].list :
          \/ t = ModuleNode(<<WhileStmt(b)>>)
          \/ t = ModuleNode(<<ForStmt(b)>>)
          \/ t = ModuleNode(<<FunctionDefStmt(b)>>)

(***************************************************************************)
(* CFGNode and the builder primitives.  A builder value b is the record    *)
(* of the builder's fields and of its call stack; successors is the list   *)
(* of <<node_id, edge_label>>.                                             *)
(***************************************************************************)
CFGNode(node_id, label, node_type, condition) ==
    [node_id |-> node_id, label |-> label, node_type |-> node_type,
     condition |-> condition, successors |-> <<>>, predecessors |-> {}]

add_successor(n, node_id, edge_label) ==
    [n EXCEPT !.successors = Append(@, <<node_id, edge_label>>)]

add_predecessor(n, node_id) ==
    [n EXCEPT !.predecessors = @ \cup {node_id}]

Self == [nodes |-> nodes, current_node_id |-> current_node_id,
         current_exits |-> current_exits, entry_node |-> entry_node,
         stack |-> stack]

\* create_node that advances the counter by two
create_node_skip(b, label, node_type, condition) ==
    LET node_id == b.current_node_id
    IN [b EXCEPT !.nodes = [k \in DOMAIN b.nodes \cup {node_id} |->
                              IF k = node_id
                              THEN CFGNode(node_id, label, node_type, condition)
                              ELSE b.nodes[k]],
                 !.current_node_id = node_id + 2]

create_node(b, label, node_type, condition) ==
    LET node_id == b.current_node_id
    IN [b EXCEPT !.nodes = [k \in DOMAIN b.nodes \cup {node_id} |->
                              IF k = node_id
                              THEN CFGNode(node_id, label, node_type, condition)
                              ELSE b.nodes[k]],
                 !.current_node_id = node_id + 1]

\* add_edge with the two ends exchanged
add_edge_reversed(b, from_node, to_node, label) ==
    IF from_node \in DOMAIN b.nodes /\ to_node \in DOMAIN b.nodes
    THEN LET n1 == [b.nodes EXCEPT ![to_node] = add_successor(@, from_node, label)]
         IN [b EXCEPT !.nodes = [n1 EXCEPT ![from_node] = add_predecessor(@, to_node)]]
    ELSE b

add_edge(b, from_node, to_node, label) ==
    IF from_node \in DOMAIN b.nodes /\ to_node \in DOMAIN b.nodes
    THEN LET n1 == [b.nodes EXCEPT ![from_node] = add_successor(@, to_node, label)]
         IN [b EXCEPT !.nodes = [n1 EXCEPT ![to_node] = add_predecessor(@, from_node)]]
    ELSE b

Min(S) == CHOOSE x \in S : \A y \in S : x <= y

\* for exit_node in exits: self.add_edge(exit_node, target_node)
RECURSIVE AddEdgesFrom(_, _, _)
AddEdgesFrom(b, exits, target_node) ==
    IF exits = {} THEN b
    ELSE LET exit_node == Min(exits)
         IN AddEdgesFrom(add_edge(b, exit_node, target_node, ""),
                         exits \ {exit_node}, target_node)

connect_exits_to_node(b, target_node) ==
    [AddEdgesFrom(b, b.current_exits, target_node)
        EXCEPT !.current_exits = {target_node}]

\* create_node followed by connect_exits_to_node of the node created
CreateAndConnect(b, label, node_type, condition) ==
    connect_exits_to_node(create_node(b, label, node_type, condition),
                          b.current_node_id)

(***************************************************************************)
(* The edge relabeling of visit_If and of visit_While.                     *)
(***************************************************************************)
\* the unlabeled entries of a successor list, in order
RECURSIVE Unlabeled(_)
Unlabeled(succ) ==
    IF succ = <<>> THEN <<>>
    ELSE IF Head(succ)[2] = "" THEN <<Head(succ)>> \o Unlabeled(Tail(succ))
         ELSE Unlabeled(Tail(succ))

\* keeps true_edges and loses false_edges
IfRelabel_true_only(succ) ==
    LET u == Unlabeled(succ)
    IN [i \in 1..(IF Len(u) = 0 THEN 0 ELSE 1) |-> <<u[i][1], "True">>]

\* true_edges takes the first unlabeled edge, false_edges every later one;
\* the list is rebuilt from true_edges then false_edges.
IfRelabel(succ) ==
    LET u == Unlabeled(succ)
    IN [i \in 1..Len(u) |-> <<u[i][1], IF i = 1 THEN "True" ELSE "False">>]

WhileRelabel(succ, decision_node) ==
    [i \in 1..Len(succ) |->
        <<succ[i][1], IF succ[i][1] = decision_node THEN "True" ELSE "False">>]

(***************************************************************************)
(* The call stack.  A frame is [op, node, decision_node, saved_exits]:     *)
(* op "visit" is a pending self.visit(node); the other ops are the rest    *)
(* of a handler after the statements it visits, with the handler's locals. *)
(***************************************************************************)
Frame(op, node, decision_node, saved_exits) ==
    [op |-> op, node |-> node, decision_node |-> decision_node,
     saved_exits |-> saved_exits]

\* visit_statements: one visit per statement, in order
visit_statements(statements) ==
    [i \in 1..Len(statements) |-> Frame("visit", statements[i], None, {})]

\* the frame being run, and the handler returning to its caller
TopOf(b) == Head(b.stack)
Return(b) == [b EXCEPT !.stack = Tail(@)]
\* the handler visits statements and then resumes as frame f
VisitThen(b, statements, f) ==
    [b EXCEPT !.stack = visit_statements(statements) \o <<f>> \o Tail(@)]

(***************************************************************************)
(* The handlers, each a function from the builder before to the builder    *)
(* after.                                                                  *)
(***************************************************************************)
visit_Module(b) ==
    LET node == TopOf(b).node
        entry == b.current_node_id
        b1 == create_node(b, "START", "start", "")
        b2 == [b1 EXCEPT !.entry_node = entry, !.current_exits = {entry}]
    IN VisitThen(b2, node.body, Frame("Module_end", NoAst, None, {}))

Module_end(b) ==
    Return(CreateAndConnect(b, "END", "end", ""))

visit_FunctionDef(b) ==
    LET node == TopOf(b).node
        b1 == CreateAndConnect(b, node.text, "start", "")
    IN VisitThen(b1, node.body, Frame("FunctionDef_end", node, None, {}))

\* looks at the last statement of the body only
HasDirectReturn_last(node) ==
    node.body[Len(node.body)].kind = "Return"

\* any(isinstance(stmt, ast.Return) for stmt in node.body)
HasDirectReturn(node) ==
    \E i \in 1..Len(node.body) : node.body[i].kind = "Return"

FunctionDef_end(b) ==
    IF ~HasDirectReturn(TopOf(b).node)
    THEN Return(CreateAndConnect(b, "return None", "output", ""))
    ELSE Return(b)

visit_If(b) ==
    LET node == TopOf(b).node
        decision_node == b.current_node_id
        b1 == CreateAndConnect(b, node.text, "decision", node.text)
        b2 == [b1 EXCEPT !.current_exits = {decision_node}]
    IN VisitThen(b2, node.body, Frame("If_orelse", node, decision_node, {}))

\* saved_exits.update(current_exits); the else branch starts at the decision
If_orelse(b) ==
    LET f == TopOf(b)
        b1 == [b EXCEPT !.current_exits = {f.decision_node}]
    IN VisitThen(b1, f.node.orelse,
                 Frame("If_end", f.node, f.decision_node,
                       f.saved_exits \cup b.current_exits))

\* If_end that forgets saved_exits
If_end_unsaved(b) ==
    LET f == TopOf(b)
    IN Return([b EXCEPT !.nodes[f.decision_node].successors = IfRelabel(@)])

If_end(b) ==
    LET f == TopOf(b)
    IN Return([b EXCEPT !.nodes[f.decision_node].successors = IfRelabel(@),
                        !.current_exits = f.saved_exits \cup b.current_exits])

visit_While(b) ==
    LET node == TopOf(b).node
        decision_node == b.current_node_id
        b1 == CreateAndConnect(b, node.text, "decision", node.text)
        b2 == [b1 EXCEPT !.current_exits = {decision_node}]
    IN VisitThen(b2, node.body, Frame("While_end", node, decision_node, {}))

While_end(b) ==
    LET decision_node == TopOf(b).decision_node
        b1 == AddEdgesFrom(b, b.current_exits, decision_node)
    IN Return([b1 EXCEPT !.current_exits = {decision_node},
                         !.nodes[decision_node].successors =
                              WhileRelabel(@, decision_node)])

visit_For(b) ==
    LET node == TopOf(b).node
        decision_node == b.current_node_id
        b1 == CreateAndConnect(b, node.text, "decision", node.text)
        b2 == [b1 EXCEPT !.current_exits = {decision_node}]
    IN VisitThen(b2, node.body, Frame("For_end", node, decision_node, {}))

\* For_end without the back-edges
For_end_open(b) ==
    Return([b EXCEPT !.current_exits = {TopOf(b).decision_node}])

For_end(b) ==
    LET decision_node == TopOf(b).decision_node
        b1 == AddEdgesFrom(b, b.current_exits, decision_node)
    IN Return([b1 EXCEPT !.current_exits = {decision_node}])

visit_Return(b) ==
    LET node == TopOf(b).node
        return_text == IF node.text # "" THEN "return None" ELSE "return"
        b1 == CreateAndConnect(b, return_text, "output", "")
    IN Return([b1 EXCEPT !.current_exits = {}])

visit_Assign(b) ==
    Return(CreateAndConnect(b, TopOf(b).node.text, "process", ""))

\* visit_Call creates its node and connects nothing; it visits no child.
visit_Call(b) ==
    Return(create_node(b, TopOf(b).node.text, "call", ""))

\* generic_visit: one process node unless the text is empty, then
\* NodeVisitor.generic_visit visits every child node.  ast.unparse does not
\* raise on a tree that ast.parse returned.
generic_visit(b) ==
    LET node == TopOf(b).node
        b1 == IF node.text # ""
              THEN CreateAndConnect(b, node.text, "process", "")
              ELSE b
    IN [b1 EXCEPT !.stack = visit_statements(node.body) \o Tail(@)]

(***************************************************************************)
(* The complexity functions.                                               *)
(***************************************************************************)
RECURSIVE SumOver(_, _)
SumOver(S, f) ==
    IF S = {} THEN 0
    ELSE LET x == CHOOSE y \in S : TRUE IN f[x] + SumOver(S \ {x}, f)

Max(a, b) == IF a >= b THEN a ELSE b

NumNodes(g) == Cardinality(DOMAIN g)
NumEdges(g) == SumOver(DOMAIN g, [k \in DOMAIN g |-> Len(g[k].successors)])

calculate_cyclomatic_complexity(g) ==
    IF DOMAIN g = {} THEN 0
    ELSE LET N == NumNodes(g)
             E == NumEdges(g)
             P == 1
         IN Max(E - N + 2 * P, 1)

calculate_complexity_by_decisions(g) ==
    Cardinality({k \in DOMAIN g : g[k].node_type = "decision"}) + 1

\* a < in place of each <=
get_complexity_rating_strict(complexity) ==
    IF complexity < 10 THEN <<"Low Risk", "green">>
    ELSE IF complexity < 20 THEN <<"Moderate Risk", "orange">>
    ELSE IF complexity < 50 THEN <<"High Risk", "red">>
    ELSE <<"Very High Risk", "darkred">>

get_complexity_rating(complexity) ==
    IF complexity <= 10 THEN <<"Low Risk", "green">>
    ELSE IF complexity <= 20 THEN <<"Moderate Risk", "orange">>
    ELSE IF complexity <= 50 THEN <<"High Risk", "red">>
    ELSE <<"Very High Risk", "darkred">>

(***************************************************************************)
(* The state machine: one action per handler entry or resumption.          *)
(***************************************************************************)
Top == Head(stack)

Visiting(kind) ==
    /\ stack # <<>>
    /\ Top.op = "visit"
    /\ Top.node.kind = kind

Resuming(op) ==
    /\ stack # <<>>
    /\ Top.op = op

Commit(b) ==
    /\ nodes' = b.nodes
    /\ current_node_id' = b.current_node_id
    /\ current_exits' = b.current_exits
    /\ entry_node' = b.entry_node
    /\ stack' = b.stack
    /\ UNCHANGED <<tree, result, metrics>>

\* FlowchartCFGBuilder() and the pending builder.visit(tree)
NewBuilder(t) ==
    [nodes |-> <<>>, current_node_id |-> 0, current_exits |-> {},
     entry_node |-> None, stack |-> <<Frame("visit", t, None, {})>>]

Init ==
    /\ tree = SyntaxErrorInput \/ Parses(tree)
    /\ nodes = <<>>
    /\ current_node_id = 0
    /\ current_exits = {}
    /\ entry_node = None
    /\ stack = IF tree = SyntaxErrorInput THEN <<>> ELSE NewBuilder(tree).stack
    /\ result = NotReturned
    /\ metrics = NoMetrics

VisitModule == Visiting("Module") /\ Commit(visit_Module(Self))
ModuleEnd == Resuming("Module_end") /\ Commit(Module_end(Self))
VisitFunctionDef == Visiting("FunctionDef") /\ Commit(visit_FunctionDef(Self))
FunctionDefEnd == Resuming("FunctionDef_end") /\ Commit(FunctionDef_end(Self))
VisitIf == Visiting("If") /\ Commit(visit_If(Self))
IfOrelse == Resuming("If_orelse") /\ Commit(If_orelse(Self))
IfEnd == Resuming("If_end") /\ Commit(If_end(Self))
VisitWhile == Visiting("While") /\ Commit(visit_While(Self))
WhileEnd == Resuming("While_end") /\ Commit(While_end(Self))
VisitFor == Visiting("For") /\ Commit(visit_For(Self))
ForEnd == Resuming("For_end") /\ Commit(For_end(Self))
VisitReturn == Visiting("Return") /\ Commit(visit_Return(Self))
VisitAssign == Visiting("Assign") /\ Commit(visit_Assign(Self))
VisitCall == Visiting("Call") /\ Commit(visit_Call(Self))
GenericVisit == Visiting("Other") /\ Commit(generic_visit(Self))

\* create_flowchart_cfg returns builder.nodes once builder.visit(tree) returns
create_flowchart_cfg ==
    /\ tree # SyntaxErrorInput
    /\ stack = <<>>
    /\ result = NotReturned
    /\ result' = Returned(nodes)
    /\ UNCHANGED <<tree, nodes, current_node_id, current_exits, entry_node, stack,
                   metrics>>

\* ast.parse raised SyntaxError: create_flowchart_cfg returns {}
create_flowchart_cfg_error ==
    /\ tree = SyntaxErrorInput
    /\ result = NotReturned
    /\ result' = Returned(<<>>)
    /\ UNCHANGED <<tree, nodes, current_node_id, current_exits, entry_node, stack,
                   metrics>>

\* main, once create_flowchart_cfg returned a non-empty graph: the two
\* complexities
main_complexity ==
    /\ result.returned
    /\ result.nodes # <<>>
    /\ ~metrics.computed
    /\ metrics' = Complexities(calculate_cyclomatic_complexity(result.nodes),
                               calculate_complexity_by_decisions(result.nodes))
    /\ UNCHANGED <<tree, nodes, current_node_id, current_exits, entry_node, stack,
                   result>>

\* rating, color = get_complexity_rating(complexity_formula)
main_rating ==
    /\ metrics.computed
    /\ metrics.rating = ""
    /\ LET r == get_complexity_rating(metrics.complexity_formula)
       IN metrics' = [metrics EXCEPT !.rating = r[1], !.color = r[2]]
    /\ UNCHANGED <<tree, nodes, current_node_id, current_exits, entry_node, stack,
                   result>>

Next ==
    \/ VisitModule
    \/ ModuleEnd
    \/ VisitFunctionDef
    \/ FunctionDefEnd
    \/ VisitIf
    \/ IfOrelse
    \/ IfEnd
    \/ VisitWhile
    \/ WhileEnd
    \/ VisitFor
    \/ ForEnd
    \/ VisitReturn
    \/ VisitAssign
    \/ VisitCall
    \/ GenericVisit
    \/ create_flowchart_cfg
    \/ create_flowchart_cfg_error
    \/ main_complexity
    \/ main_rating

Spec == Init /\ [][Next]_vars

(***************************************************************************)
(* get_complexity_rating on its own: the complexity is any integer of      *)
(* absolute value at most MaxComplexity.                                   *)
(***************************************************************************)
InitRating ==
    /\ tree = SyntaxErrorInput
    /\ nodes = <<>>
    /\ current_node_id = 0
    /\ current_exits = {}
    /\ entry_node = None
    /\ stack = <<>>
    /\ result = NotReturned
    /\ \E c \in (0 - MaxComplexity)..MaxComplexity : metrics = Complexities(c, c)

NextRating == main_rating

SpecRating == InitRating /\ [][NextRating]_vars

(***************************************************************************)
(* NodeVisitor.visit dispatches on the class of the node; visit(b) runs    *)
(* the frame on top of the stack and Build(t) the whole builder.visit(t).  *)
(***************************************************************************)
visit(b) ==
    LET f == TopOf(b)
    IN CASE f.op = "Module_end" -> Module_end(b)
         [] f.op = "FunctionDef_end" -> FunctionDef_end(b)
         [] f.op = "If_orelse" -> If_orelse(b)
         [] f.op = "If_end" -> If_end(b)
         [] f.op = "While_end" -> While_end(b)
         [] f.op = "For_end" -> For_end(b)
         [] f.op = "visit" /\ f.node.kind = "Module" -> visit_Module(b)
         [] f.op = "visit" /\ f.node.kind = "FunctionDef" -> visit_FunctionDef(b)
         [] f.op = "visit" /\ f.node.kind = "If" -> visit_If(b)
         [] f.op = "visit" /\ f.node.kind = "While" -> visit_While(b)
         [] f.op = "visit" /\ f.node.kind = "For" -> visit_For(b)
         [] f.op = "visit" /\ f.node.kind = "Return" -> visit_Return(b)
         [] f.op = "visit" /\ f.node.kind = "Assign" -> visit_Assign(b)
         [] f.op = "visit" /\ f.node.kind = "Call" -> visit_Call(b)
         [] OTHER -> generic_visit(b)

RECURSIVE RunToEnd(_)
RunToEnd(b) == IF b.stack = <<>> THEN b ELSE RunToEnd(visit(b))

Build(t) == RunToEnd(NewBuilder(t)).nodes

Done == result.returned

(***************************************************************************)
(* Properties.                                                             *)
(***************************************************************************)
\* the graph create_flowchart_cfg returned for a module that parsed
Built == Done /\ tree # SyntaxErrorInput
Graph == result.nodes

Decisions(g) == {k \in DOMAIN g : g[k].node_type = "decision"}
Targets(n) == {n.successors[i][1] : i \in 1..Len(n.successors)}
EdgeLabels(n) == {n.successors[i][2] : i \in 1..Len(n.successors)}
\* no node lists k as a successor target and k has no predecessor
NoIncoming(g, k) ==
    /\ g[k].predecessors = {}
    /\ \A j \in DOMAIN g : k \notin Targets(g[j])

RECURSIVE CountKind(_, _)
RECURSIVE CountKindIn(_, _)
CountKind(node, kind) ==
    (IF node.kind = kind THEN 1 ELSE 0)
      + CountKindIn(node.body, kind) + CountKindIn(node.orelse, kind)
CountKindIn(list, kind) ==
    IF list = <<>> THEN 0
    ELSE CountKind(Head(list), kind) + CountKindIn(Tail(list), kind)

\* C1 (as claimed): in the graph of every module, each decision node has
\* exactly two outgoing edges, one labeled "True" and one labeled "False".
C1_DecisionTwoLabeledEdges ==
    Built => \A k \in Decisions(Graph) :
                /\ Len(Graph[k].successors) = 2
                /\ EdgeLabels(Graph[k]) = {"True", "False"}

\* a statement that creates one node and has no child to visit
OneNodeStmt(s) == s.kind \in {"Assign", "Return"} \/ (s.kind = "Other" /\ s.body = <<>>)

\* C2 (as claimed): when the first statement of the module is a Return and
\* one-node statements follow it, no node created after the return node (the
\* nodes of the following statements and END, which follows the sequence)
\* has an incoming edge.
C2_NothingAfterReturn ==
    (/\ Built
     /\ Len(tree.body) >= 1
     /\ tree.body[1].kind = "Return"
     /\ \A i \in 2..Len(tree.body) : OneNodeStmt(tree.body[i]))
    => \A k \in DOMAIN Graph : k >= 2 => NoIncoming(Graph, k)

StartNodes(g) == {k \in DOMAIN g : g[k].node_type = "start"}

\* C3 (as claimed): every node of type start, the module's START and each
\* function's entry, has no incoming edge, and there is one per unit.
C3_StartNoIncoming ==
    Built => /\ \A k \in StartNodes(Graph) : NoIncoming(Graph, k)
             /\ Cardinality(StartNodes(Graph)) = 1 + CountKind(tree, "FunctionDef")

\* C3 (amended): the module's START node never has an incoming edge, the
\* built graph has one start node for the module and one per function
\* definition, and a function's entry node gets an edge from every node of
\* the frontier at its definition.
C3_ModuleStartNoIncoming ==
    /\ [](entry_node # None =>
             /\ nodes[entry_node].node_type = "start"
             /\ NoIncoming(nodes, entry_node))
    /\ [](Built => Cardinality(StartNodes(Graph)) = 1 + CountKind(tree, "FunctionDef"))
    /\ [][VisitFunctionDef =>
             /\ nodes'[current_node_id].node_type = "start"
             /\ nodes'[current_node_id].predecessors = current_exits
             /\ \A e \in current_exits : current_node_id \in Targets(nodes'[e])]_vars

\* a function entry that has an incoming edge, beside a START that has none
C3_Witness ==
    /\ Built
    /\ NoIncoming(Graph, entry_node)
    /\ \E k \in StartNodes(Graph) : k # entry_node /\ Graph[k].predecessors # {}

\* C4 (as claimed): for a module that starts with a while loop whose body
\* does not end in a Return, the decision (node 1) has its edge to the first
\* body node (node 2) labeled "True" and every other outgoing edge labeled
\* "False"; the module `while c: x = 1` has cyclomatic complexity 2.
C4_WhileLabels ==
    (/\ Built
     /\ Len(tree.body) >= 1
     /\ tree.body[1].kind = "While"
     /\ tree.body[1].body[Len(tree.body[1].body)].kind # "Return")
    => LET d == Graph[1]
       IN /\ \E i \in 1..Len(d.successors) : d.successors[i] = <<2, "True">>
          /\ \A i \in 1..Len(d.successors) :
                d.successors[i][1] # 2 => d.successors[i][2] = "False"
          /\ tree.body = <<WhileStmt(<<AssignStmt>>)>>
                => calculate_cyclomatic_complexity(Graph) = 2

\* the module with each top-level for loop written as a while loop
ForAsWhile(t) ==
    [t EXCEPT !.body = [i \in 1..Len(@) |->
                           IF @[i].kind = "For" THEN WhileStmt(@[i].body) ELSE @[i]]]

\* same nodes, same edges in the same order with the same labels; the
\* display text (label, condition) is not compared
SameButText(g, h) ==
    /\ DOMAIN g = DOMAIN h
    /\ \A k \in DOMAIN g :
          /\ g[k].node_type = h[k].node_type
          /\ g[k].successors = h[k].successors
          /\ g[k].predecessors = h[k].predecessors

\* C5 (as claimed): a module with a top-level for loop gives the same graph,
\* up to the decision's text, as the module with that loop written as a
\* while loop.
C5_ForSameAsWhile ==
    (Built /\ \E i \in 1..Len(tree.body) : tree.body[i].kind = "For")
    => SameButText(Graph, Build(ForAsWhile(tree)))

\* C6 (as claimed): a module made of one statement without a dedicated rule
\* gives START, one process node connected to START, and END: no other node
\* and no node without an incoming edge.
C6_OneProcessNode ==
    (Built /\ Len(tree.body) = 1 /\ tree.body[1].kind = "Other")
    => /\ NumNodes(Graph) = 3
       /\ Graph[1].node_type = "process"
       /\ Graph[1].predecessors = {0}
       /\ \A k \in DOMAIN Graph : k # 0 => Graph[k].predecessors # {}

\* C7 (as claimed): for every graph create_flowchart_cfg returns, the empty
\* one included, the cyclomatic complexity is max(1, E - N + 2), so >= 1.
C7_AtLeastOne ==
    Done => /\ calculate_cyclomatic_complexity(Graph)
                 = Max(1, NumEdges(Graph) - NumNodes(Graph) + 2)
            /\ calculate_cyclomatic_complexity(Graph) >= 1

\* C8 (as claimed): for every returned graph without a decision node, the
\* empty one included, both complexity measures are 1.
C8_NoDecisionBothOne ==
    (Done /\ Decisions(Graph) = {})
    => /\ calculate_cyclomatic_complexity(Graph) = 1
       /\ calculate_complexity_by_decisions(Graph) = 1

\* C9: at the end of a function definition whose body has no direct-child
\* Return, exactly one node is created, of type output and labeled
\* "return None", every node of the frontier gets an unlabeled edge to it
\* (so it has an incoming edge whenever the body falls through) and it
\* becomes the frontier; with a direct-child Return nothing is created.
C9_ImplicitReturn ==
    [][FunctionDefEnd =>
        IF \E i \in 1..Len(Top.node.body) : Top.node.body[i].kind = "Return"
        THEN nodes' = nodes /\ current_exits' = current_exits
        ELSE LET r == current_node_id
             IN /\ r \notin DOMAIN nodes
                /\ DOMAIN nodes' = DOMAIN nodes \cup {r}
                /\ nodes'[r].node_type = "output"
                /\ nodes'[r].label = "return None"
                /\ nodes'[r].predecessors = current_exits
                /\ \A e \in current_exits :
                      nodes'[e].successors = Append(nodes[e].successors, <<r, "">>)
                /\ \A k \in DOMAIN nodes \ current_exits : nodes'[k] = nodes[k]
                /\ current_exits' = {r}]_vars

\* `def f(a): x = 1` built: the synthesized node follows the assignment
C9_Witness ==
    /\ Built
    /\ tree.body = <<FunctionDefStmt(<<AssignStmt>>)>>
    /\ Graph[3].node_type = "output"
    /\ Graph[3].label = "return None"
    /\ Graph[3].predecessors = {2}

\* C10: the frontier after a conditional is the union of the frontier the
\* true branch left and the frontier the false branch left (the decision
\* when there is no false branch), nested and elif conditionals included;
\* for `if c: x = 1 else: x = 1` the decision has a "True" edge to the first
\* branch node and a "False" edge to the second, both branch nodes have an
\* edge to END, and both complexity measures are 2.
C10_IfFrontierUnion ==
    /\ [][/\ IfOrelse =>
                stack'[Len(Top.node.orelse) + 1].saved_exits = current_exits
          /\ IfEnd =>
                /\ current_exits' = Top.saved_exits \cup current_exits
                /\ Top.node.orelse = <<>> => Top.decision_node \in current_exits']_vars
    /\ []((Built /\ tree.body = <<IfStmt(<<AssignStmt>>, <<AssignStmt>>)>>)
            => /\ Graph[1].successors = << <<2, "True">>, <<3, "False">> >>
               /\ Graph[2].successors = << <<4, "">> >>
               /\ Graph[3].successors = << <<4, "">> >>
               /\ Graph[4].predecessors = {2, 3}
               /\ calculate_cyclomatic_complexity(Graph) = 2
               /\ calculate_complexity_by_decisions(Graph) = 2)
    /\ []((Built /\ tree.body = <<IfStmt(<<AssignStmt>>,
                                         <<IfStmt(<<AssignStmt>>, <<>>)>>)>>)
            => Graph[5].predecessors = {2, 3, 4})

\* `if c: x = 1 else: x = 1` built: END is reached from both branch nodes
C10_Witness ==
    /\ Built
    /\ tree.body = <<IfStmt(<<AssignStmt>>, <<AssignStmt>>)>>
    /\ Graph[4].predecessors = {2, 3}

\* C11: at every point of a build the keys of the node table are exactly
\* 0..N-1, N being the counter (the number of create_node calls so far), each
\* node's node_id is its key, and a step that creates a node adds exactly the
\* key equal to the previous counter value and advances the counter by one:
\* no id is reused or skipped.
C11_DenseIds ==
    /\ [](/\ DOMAIN nodes = 0..(current_node_id - 1)
          /\ \A k \in DOMAIN nodes : nodes[k].node_id = k)
    /\ [][DOMAIN nodes' # DOMAIN nodes =>
             /\ current_node_id \notin DOMAIN nodes
             /\ DOMAIN nodes' = DOMAIN nodes \cup {current_node_id}
             /\ current_node_id' = current_node_id + 1]_vars

\* in the middle of a build, five nodes created
C11_Witness ==
    /\ stack # <<>>
    /\ current_node_id = 5
    /\ DOMAIN nodes = 0..4

\* the statements are assignments, conditionals, while and for loops only
RECURSIVE Structured(_)
Structured(list) ==
    \A i \in 1..Len(list) :
       /\ list[i].kind \in {"Assign", "If", "While", "For"}
       /\ Structured(list[i].body)
       /\ Structured(list[i].orelse)

\* C13: for a module made of assignments, conditionals, while loops and for
\* loops only, E - N + 2 equals the number of decision nodes plus one, and
\* the two complexity functions return the same value.
C13_MeasuresAgree ==
    (Built /\ Structured(tree.body))
    => /\ NumEdges(Graph) - NumNodes(Graph) + 2
             = calculate_complexity_by_decisions(Graph)
       /\ calculate_cyclomatic_complexity(Graph)
             = calculate_complexity_by_decisions(Graph)

\* `while c: (if c: x = 1)` built: two decisions, both measures 3
C13_Witness ==
    /\ Built
    /\ tree.body = <<WhileStmt(<<IfStmt(<<AssignStmt>>, <<>>)>>)>>
    /\ calculate_cyclomatic_complexity(Graph) = 3
    /\ calculate_complexity_by_decisions(Graph) = 3

\* every successor target exists and lists the node as a predecessor, and
\* every predecessor exists and has the node among its successor targets
WellFormed(g) ==
    \A n \in DOMAIN g :
       /\ \A t \in Targets(g[n]) : t \in DOMAIN g /\ n \in g[t].predecessors
       /\ \A q \in g[n].predecessors : q \in DOMAIN g /\ n \in Targets(g[q])

\* the targets of the outgoing edges of a node, in order
TargetSeq(n) == [i \in 1..Len(n.successors) |-> n.successors[i][1]]

\* C14: in every state of a build the graph is well-formed, and the
\* relabeling at the end of visit_If and visit_While leaves the decision's
\* outgoing edges with the same targets in the same order.
C14_WellFormed ==
    /\ [](WellFormed(nodes))
    /\ [][(IfEnd \/ WhileEnd) =>
             TargetSeq(nodes'[Top.decision_node])
                = TargetSeq(nodes[Top.decision_node])]_vars

\* in the middle of a build, right after a conditional with both branches
\* was relabeled
C14_Witness ==
    /\ stack # <<>>
    /\ \E k \in Decisions(nodes) :
          /\ Len(nodes[k].successors) = 2
          /\ nodes[k].successors[1][2] = "True"
          /\ nodes[k].successors[2][2] = "False"
    /\ WellFormed(nodes)

\* C12: every complexity value gets exactly one rating: Low for a value
\* <= 10, Moderate for 11..20, High for 21..50, Very High above 50.
C12_RatingBands ==
    metrics.rating # "" =>
       LET v == metrics.complexity_formula
           r == metrics.rating
       IN /\ r \in {"Low Risk", "Moderate Risk", "High Risk", "Very High Risk"}
          /\ r = "Low Risk" <=> v <= 10
          /\ r = "Moderate Risk" <=> (11 <= v /\ v <= 20)
          /\ r = "High Risk" <=> (21 <= v /\ v <= 50)
          /\ r = "Very High Risk" <=> v > 50

\* the value 50, the inclusive upper bound of High, was rated
C12_Witness ==
    /\ metrics.complexity_formula = 50
    /\ metrics.rating = "High Risk"

====
